---- MODULE Spec2Model ----
(***************************************************************************)
(* Model of the equation checks of neural-tabula-rasa-thesis:              *)
(*   src/src/binom_fns.py          B, T, compare_first_x_digits            *)
(*   src/src/two_step_disjoint.py  check_eq_2_1 .. 2_6 and their runner    *)
(*   src/src/two_step_shared.py    check_eq_2_1_dash .. 2_6_dash, runner   *)
(*   src/src/one_step_shared.py    check_eq_2_1_ddash .. 2_6_ddash, runner *)
(*                                                                         *)
(* Floats are modelled by exact rationals [num, den]; den = 0 is NaN.      *)
(* With p = 1/2 (and the other dyadic inputs used here) every value the    *)
(* code computes is exactly representable, so rounding ties fall where     *)
(* Python's round-half-even puts them.                                     *)
(***************************************************************************)
EXTENDS Integers, Sequences, FiniteSets

VARIABLES
    nonintegral,  \* how the installed scipy treats a fractional trial count
    ev,           \* one call of an equation evaluator: arguments and outcome
    cmp,          \* one call of compare_first_x_digits
    dp,           \* one computation of the derived counts r', r'', r^, r#
    frame,        \* the local variables of a running nested-sum function
    visited,      \* the index tuples whose innermost term has been evaluated
    run           \* one call of a check-suite runner

vars == <<nonintegral, ev, cmp, dp, frame, visited, run>>

----------------------------------------------------------------------------
(* Exact arithmetic standing for Python / numpy float arithmetic.          *)

Abs(i) == IF i < 0 THEN -i ELSE i

Min(a, b) == IF a <= b THEN a ELSE b

Max(a, b) == IF a >= b THEN a ELSE b

RECURSIVE GCD(_, _)
GCD(a, b) == IF b = 0 THEN a ELSE GCD(b, a % b)

LCM(a, b) == (a \div GCD(a, b)) * b

NaN == [num |-> 0, den |-> 0]

IsNaN(x) == x.den = 0

Rat(a, b) ==
    LET g == GCD(Abs(a), b)
    IN  [num |-> a \div g, den |-> b \div g]

I(i) == [num |-> i, den |-> 1]

Zero == I(0)

One == I(1)

RAdd(x, y) ==
    IF IsNaN(x) \/ IsNaN(y) THEN NaN
    ELSE LET l == LCM(x.den, y.den)
         IN  Rat(x.num * (l \div x.den) + y.num * (l \div y.den), l)

RNeg(x) == IF IsNaN(x) THEN NaN ELSE [num |-> -x.num, den |-> x.den]

RSub(x, y) == RAdd(x, RNeg(y))

RMul(x, y) ==
    IF IsNaN(x) \/ IsNaN(y) THEN NaN
    ELSE LET g1 == GCD(Abs(x.num), y.den)
             g2 == GCD(Abs(y.num), x.den)
         IN  [num |-> (x.num \div g1) * (y.num \div g2),
              den |-> (x.den \div g2) * (y.den \div g1)]

RECURSIVE RPow(_, _)
RPow(x, e) == IF e = 0 THEN One ELSE RMul(x, RPow(x, e - 1))

\* x <= y as IEEE compares: false when either side is NaN
RLe(x, y) == ~IsNaN(x) /\ ~IsNaN(y) /\ x.num * y.den <= y.num * x.den

RGe(x, y) == RLe(y, x)

Floor(x) == x.num \div x.den

IsIntegral(x) == x.den = 1

\* round-half-even of a / b (b > 0): Python's round() on a float
RoundHalfEven(a, b) ==
    LET q   == a \div b
        rem == a % b
    IN  IF 2 * rem < b THEN q
        ELSE IF 2 * rem > b THEN q + 1
        ELSE IF q % 2 = 0 THEN q ELSE q + 1

RECURSIVE Pow10(_)
Pow10(d) == IF d = 0 THEN 1 ELSE 10 * Pow10(d - 1)

\* round(x, d) as a rational with denominator 10^d; x >= 0 and finite.
\* x * 10^d is split so that no product leaves 32 bits.
RoundTo(x, d) ==
    IF IsNaN(x) THEN NaN
    ELSE LET s   == Pow10(d)
             ip  == x.num \div x.den
             fr  == x.num % x.den
             sq  == s \div x.den
             sr  == s % x.den
             lo  == fr * sr
             fl  == ip * s + fr * sq + (lo \div x.den)
             rem == lo % x.den
             up  == IF 2 * rem < x.den THEN 0
                    ELSE IF 2 * rem > x.den THEN 1
                    ELSE IF fl % 2 = 0 THEN 0 ELSE 1
         IN  Rat(fl + up, s)

\* round(x, d) == t for an integer t, x finite: |x - t| <= 1 / (2 * 10^d)
RoundIs(x, d, t) ==
    /\ ~IsNaN(x)
    /\ Abs(x.num - t * x.den) <= x.den \div (2 * Pow10(d))

\* sum of f[0], ..., f[hi-1], accumulated in loop order
RECURSIVE SumUpTo(_, _)
SumUpTo(f, hi) == IF hi <= 0 THEN Zero ELSE RAdd(SumUpTo(f, hi - 1), f[hi - 1])

----------------------------------------------------------------------------
(* src/src/binom_fns.py                                                    *)

RECURSIVE Choose(_, _)
Choose(m, j) == IF j = 0 THEN 1 ELSE (Choose(m, j - 1) * (m - j + 1)) \div j

\* scipy's binom._argcheck: an argument outside the domain gives nan, not an
\* exception.  A fractional trial count is nan in a scipy whose _argcheck
\* demands an integral n, and is truncated by one that does not.
ArgCheck(cnt, p) ==
    /\ ~IsNaN(cnt) /\ ~IsNaN(p)
    /\ cnt.num >= 0
    /\ (nonintegral = "nan" => IsIntegral(cnt))
    /\ p.num >= 0 /\ p.num <= p.den

\* binom.pmf(j, m, p) for integers 0 <= m and j
Pmf(j, m, p) ==
    IF j < 0 \/ j > m THEN Zero
    ELSE RMul(I(Choose(m, j)), RMul(RPow(p, j), RPow(RSub(One, p), m - j)))

\* P(X >= lo) for X ~ Binomial(m, p)
RECURSIVE Upper(_, _, _)
Upper(lo, m, p) ==
    IF lo > m THEN Zero
    ELSE IF lo <= 0 THEN One
    ELSE RAdd(Pmf(lo, m, p), Upper(lo + 1, m, p))

\* B(r, p, k) = binom.sf(k-1, r, p) = P(X > floor(k-1))
B(r, p, k) ==
    IF ~ArgCheck(r, p) THEN NaN
    ELSE Upper(Floor(RSub(k, One)) + 1, Floor(r), p)

\* T(r, p, j) = binom.pmf(j, r, p); j is always a loop index
T(r, p, j) ==
    IF ~ArgCheck(r, p) THEN NaN
    ELSE IF ~IsIntegral(j) THEN Zero
    ELSE Pmf(j.num, Floor(r), p)
\* str() of a decimal digit
DigitChar(d) == <<"0", "1", "2", "3", "4", "5", "6", "7", "8", "9">>[d + 1]

RECURSIVE Digits(_)
Digits(i) ==
    IF i < 10 THEN <<DigitChar(i)>>
    ELSE Digits(i \div 10) \o <<DigitChar(i % 10)>>

\* str(b) for a Python int
StrInt(b) == IF b < 0 THEN <<"-">> \o Digits(-b) ELSE Digits(b)

\* str(a) for a float that round(., 2) produced, |a| < 10^16 (positional
\* notation): the integer part, ".", then the shortest fraction
StrFloat(a) ==
    IF IsNaN(a) THEN <<"n", "a", "n">>
    ELSE LET h    == Abs(a.num) * (100 \div a.den)
             f    == h % 100
             frac == IF f % 10 = 0 THEN <<DigitChar(f \div 10)>>
                     ELSE <<DigitChar(f \div 10), DigitChar(f % 10)>>
             sign == IF a.num < 0 THEN <<"-">> ELSE <<>>
         IN  sign \o Digits(h \div 100) \o <<".">> \o frac

\* s[:x]
Prefix(s, x) == SubSeq(s, 1, Min(x, Len(s)))

\* s without its decimal point
RECURSIVE DropPoint(_)
DropPoint(s) ==
    IF s = <<>> THEN <<>>
    ELSE IF Head(s) = "." THEN DropPoint(Tail(s))
    ELSE <<Head(s)>> \o DropPoint(Tail(s))

\* compare_first_x_digits comparing digits only, the decimal point skipped
compare_first_x_digits_DigitsOnly(a, b, x) ==
    Prefix(DropPoint(StrFloat(a)), x) = Prefix(StrInt(b), x)

\* compare_first_x_digits(a, b, x) at its call sites: a float, b an int
compare_first_x_digits(a, b, x) == Prefix(StrFloat(a), x) = Prefix(StrInt(b), x)

----------------------------------------------------------------------------
(* Outcomes of a call: a returned boolean or a raised exception.           *)

Return(b) == [kind |-> "return", value |-> b, error |-> ""]

Raise(e) == [kind |-> "raise", value |-> FALSE, error |-> e]

NotCalled == [kind |-> "none", value |-> FALSE, error |-> ""]

\* 10**6, the crossover of the equation 2.1 checks
Crossover == 1000000

\* x*x <= 400*e for integers x >= 0, e >= 0, without leaving 32 bits
Sq400Le(x, e) ==
    IF x >= 20 * 46340 THEN FALSE
    ELSE LET q == x \div 20
             t == x % 20
         IN  q * q + ((40 * q * t + t * t + 399) \div 400) <= e

\* d <= 2 * np.sqrt(e) for finite d and e >= 0 with at most two decimals
LeTwoSqrt(d, e) ==
    LET dh == d.num * (100 \div d.den)
        eh == e.num * (100 \div e.den)
    IN  dh <= 0 \/ Sq400Le(dh, eh)

\* r >= (expect - stdev) and r <= (expect + stdev), stdev = 2*np.sqrt(expect)
WithinStdev(r, expect) ==
    /\ ~IsNaN(expect)
    /\ LeTwoSqrt(RSub(expect, I(r)), expect)
    /\ LeTwoSqrt(RSub(I(r), expect), expect)

\* round(r**2 / n) and round(r**3 / n**2), n # 0
r_dash(n, r) == RoundHalfEven(r * r, n)

r_ddash(n, r) == RoundHalfEven(r * r * r, n * n)

r_caret(n, r) == r_dash(n, r) - r_ddash(n, r)

r_sharp(n, r) == r - 2 * r_dash(n, r) + r_ddash(n, r)

----------------------------------------------------------------------------
(* src/src/two_step_disjoint.py                                            *)

expect_2_1(n, p, k, r) == RoundTo(RMul(I(n), RPow(B(I(r), p, I(k)), 2)), 2)

\* check_eq_2_1 with the crossover test off by one (n <= 10**6)
check_eq_2_1_InclusiveCrossover(n, p, k, r) ==
    LET expect == expect_2_1(n, p, k, r)
    IN  IF n <= Crossover
        THEN Return(WithinStdev(r, expect))
        ELSE Return(compare_first_x_digits(expect, r, 2))

check_eq_2_1(n, p, k, r) ==
    LET expect == expect_2_1(n, p, k, r)
    IN  IF n < Crossover
        THEN Return(WithinStdev(r, expect))
        ELSE Return(compare_first_x_digits(expect, r, 2))

\* check_eq_2_2 behind a parameter validation the code does not have
check_eq_2_2_Validating(n, p, k, r) ==
    IF p.num <= 0 \/ p.num >= p.den \/ n = 0 \/ r < 0
    THEN Raise("InvalidParameterError")
    ELSE LET p_dash == RMul(B(Rat(r, 2), p, I(k)), B(I(r), p, I(k)))
             expect == B(I(n), p_dash, Rat(r, 10))
         IN  Return(RoundIs(expect, 6, 0))

check_eq_2_2(n, p, k, r) ==
    LET p_dash == RMul(B(Rat(r, 2), p, I(k)), B(I(r), p, I(k)))
        expect == B(I(n), p_dash, Rat(r, 10))
    IN  Return(RoundIs(expect, 6, 0))

check_eq_2_3(n, p, k, r) ==
    LET p_dash == RMul(RSub(One, B(I(r), p, I(k))), RPow(B(I(r), p, I(k)), 2))
        expect == B(I(n), p_dash, Rat(2 * r, 3))
    IN  Return(RoundIs(expect, 6, 1))

check_eq_2_4(n, p, k, r) ==
    LET p_dash == RMul(p, B(I(r), p, I(k)))
        Y      == B(I(n), p_dash, I(k))
    IN  Return(RoundIs(Y, 6, 1))

check_eq_2_5(n, p, k, r) ==
    LET p_dash == B(I(n), RMul(p, B(Rat(r, 2), p, I(k))), I(k))
        expect == B(I(r), p_dash, Rat(r, 2))
    IN  Return(RoundIs(expect, 6, 0))

check_eq_2_6(n, p, k, r, t) ==
    LET p_dash  == RMul(p, RSub(One, RPow(RSub(One, B(I(r), p, I(k))), t)))
        p_ddash == B(I(n), RMul(p_dash, B(I(r), p, I(k))), I(k))
        approx  == B(I(r), p_ddash, Rat(r, 2))
    IN  Return(RoundIs(approx, 6, 0))
----------------------------------------------------------------------------
(* The nested sums, one step per loop header.  A frame holds the locals of *)
(* the running function; pc names the loop header about to be tested.     *)

NoFrame ==
    [fn |-> "none", pc |-> "none", n |-> 0, p |-> Zero, k |-> 0, r |-> 0,
     r_dash |-> 0, r_ddash |-> 0, r_caret |-> 0, r_sharp |-> 0,
     p_dash |-> Zero, s |-> 0, i |-> 0, j |-> 0, l |-> 0, m |-> 0,
     total_i |-> Zero, total_j |-> Zero, total_l |-> Zero, total_m |-> Zero,
     ret |-> NotCalled]

\* one_step_shared.py, eq_2_3_ddash_p_dash_shared, lines 24-28
SharedEnter(n, p, k_m, r) ==
    IF n = 0
    THEN [NoFrame EXCEPT !.fn = "eq_2_3_ddash_p_dash_shared", !.pc = "raise",
                         !.p = p, !.k = k_m, !.r = r,
                         !.ret = Raise("ZeroDivisionError")]
    ELSE [NoFrame EXCEPT !.fn = "eq_2_3_ddash_p_dash_shared", !.pc = "for_s",
                         !.n = n, !.p = p, !.k = k_m, !.r = r,
                         !.r_dash = r_dash(n, r), !.r_ddash = r_ddash(n, r),
                         !.r_caret = r_caret(n, r), !.r_sharp = r_sharp(n, r)]

\* line 29, and line 43 when the range is exhausted
SharedForS(f) ==
    IF f.s < f.k
    THEN [f EXCEPT !.total_i = Zero, !.i = 0, !.pc = "for_i"]
    ELSE [f EXCEPT !.pc = "return"]

\* line 31, and line 42 when the range is exhausted
SharedForI(f) ==
    IF f.i < f.k - f.s
    THEN [f EXCEPT !.total_j = Zero, !.j = 0, !.pc = "for_j"]
    ELSE [f EXCEPT !.p_dash = RAdd(f.p_dash,
                                   RMul(T(I(f.r_sharp), f.p, I(f.s)), f.total_i)),
                   !.s = f.s + 1, !.pc = "for_s"]

\* line 33, and line 41 when the range is exhausted
SharedForJ(f) ==
    IF f.j < f.k - f.i - f.s
    THEN [f EXCEPT !.total_m = Zero, !.m = 0, !.pc = "for_m"]
    ELSE [f EXCEPT !.total_i = RAdd(f.total_i,
                                    RMul(T(I(f.r_caret), f.p, I(f.i)), f.total_j)),
                   !.i = f.i + 1, !.pc = "for_i"]

\* line 35, and line 40 when the range is exhausted
SharedForM(f) ==
    IF f.m < f.k - f.i - f.j - f.s
    THEN [f EXCEPT !.total_l = Zero, !.l = 0, !.pc = "for_l"]
    ELSE [f EXCEPT !.total_j = RAdd(f.total_j,
                                    RMul(T(I(f.r_caret), f.p, I(f.j)), f.total_m)),
                   !.j = f.j + 1, !.pc = "for_j"]

\* the threshold k_m-s-i-j-l-m of line 38
SharedThreshold(f) == f.k - f.s - f.i - f.j - f.l - f.m

\* line 38 without its factor (1 - B)
SharedTerm_NoComplement(f) ==
    RMul(T(I(f.r_caret), f.p, I(f.l)),
         B(I(f.r_sharp), f.p, I(SharedThreshold(f))))

\* the summand of line 38
SharedTerm(f) ==
    LET b == B(I(f.r_sharp), f.p, I(SharedThreshold(f)))
    IN  RMul(T(I(f.r_caret), f.p, I(f.l)), RMul(b, RSub(One, b)))

\* line 37 with the inclusive bound of two_step_shared.py
SharedMoreL_Inclusive(f) == f.l < f.k - f.i - f.j - f.m - f.s + 1

\* whether line 37's range yields another l
SharedMoreL(f) == f.l < f.k - f.i - f.j - f.m - f.s

\* line 37 with its body line 38, and line 39 when the range is exhausted
SharedForL(f) ==
    IF SharedMoreL(f)
    THEN [f EXCEPT !.total_l = RAdd(f.total_l, SharedTerm(f)), !.l = f.l + 1]
    ELSE [f EXCEPT !.total_m = RAdd(f.total_m,
                                    RMul(T(I(f.r_ddash), f.p, I(f.m)), f.total_l)),
                   !.m = f.m + 1, !.pc = "for_m"]

SharedStep(f) ==
    CASE f.pc = "for_s" -> SharedForS(f)
      [] f.pc = "for_i" -> SharedForI(f)
      [] f.pc = "for_j" -> SharedForJ(f)
      [] f.pc = "for_m" -> SharedForM(f)
      [] f.pc = "for_l" -> SharedForL(f)

RECURSIVE SharedRun(_)
SharedRun(f) ==
    IF f.pc \in {"return", "raise"} THEN f ELSE SharedRun(SharedStep(f))

\* eq_2_3_ddash_p_dash_shared(n, p, k_m, r), n # 0: the value returned
eq_2_3_ddash_p_dash_shared(n, p, k_m, r) ==
    SharedRun(SharedEnter(n, p, k_m, r)).p_dash

\* the summand of one_step_shared.py line 20
DisjointTerm(p, k_m, r, s) ==
    RMul(T(I(r), p, I(s)),
         RMul(B(I(r), p, I(k_m - s)), RSub(One, B(I(r), p, I(k_m - s)))))

eq_2_3_ddash_p_dash_disjoint(n, p, k_m, r) ==
    SumUpTo([s \in 0..(k_m - 1) |-> DisjointTerm(p, k_m, r, s)], k_m)

\* two_step_shared.py, check_eq_2_3_dash, lines 24-27
DashEnter(n, p, k, r) ==
    IF n = 0
    THEN [NoFrame EXCEPT !.fn = "check_eq_2_3_dash", !.pc = "raise",
                         !.p = p, !.k = k, !.r = r,
                         !.ret = Raise("ZeroDivisionError")]
    ELSE [NoFrame EXCEPT !.fn = "check_eq_2_3_dash", !.pc = "for_i",
                         !.n = n, !.p = p, !.k = k, !.r = r,
                         !.r_dash = r_dash(n, r), !.r_ddash = r_ddash(n, r),
                         !.r_caret = r_caret(n, r)]

\* line 28, and lines 39-40 when the range is exhausted
DashForI(f) ==
    IF f.i < f.k + 1
    THEN [f EXCEPT !.total_j = Zero, !.j = 0, !.pc = "for_j"]
    ELSE LET expect == B(I(f.n), f.p_dash, Rat(2 * f.r, 3))
         IN  [f EXCEPT !.ret = Return(RoundIs(expect, 5, 1)), !.pc = "return"]

\* line 30, and line 38 when the range is exhausted
DashForJ(f) ==
    IF f.j < f.k - f.i + 1
    THEN [f EXCEPT !.total_l = Zero, !.l = 0, !.pc = "for_l"]
    ELSE [f EXCEPT !.p_dash = RAdd(f.p_dash,
                                   RMul(T(I(f.r_caret), f.p, I(f.i)), f.total_j)),
                   !.i = f.i + 1, !.pc = "for_i"]

\* line 32, and line 37 when the range is exhausted
DashForL(f) ==
    IF f.l < f.k - f.i - f.j + 1
    THEN [f EXCEPT !.total_m = Zero, !.m = 0, !.pc = "for_m"]
    ELSE [f EXCEPT !.total_j = RAdd(f.total_j,
                                    RMul(T(I(f.r_caret), f.p, I(f.j)), f.total_l)),
                   !.j = f.j + 1, !.pc = "for_j"]

\* the thresholds k-i-j-m, k-j-l-m, k-i-l-m of line 35
DashThresholds(f) ==
    <<f.k - f.i - f.j - f.m, f.k - f.j - f.l - f.m, f.k - f.i - f.l - f.m>>

\* the summand of line 35
DashTerm(f) ==
    LET rs == I(f.r - 2 * f.r_dash + f.r_ddash)
        th == DashThresholds(f)
    IN  RMul(T(I(f.r_ddash), f.p, I(f.m)),
             RMul(RMul(B(rs, f.p, I(th[1])), B(rs, f.p, I(th[2]))),
                  RSub(One, B(rs, f.p, I(th[3])))))

\* line 34 with the exclusive bound of one_step_shared.py
DashMoreM_Exclusive(f) == f.m < f.k - f.i - f.j - f.l

\* whether line 34's range yields another m
DashMoreM(f) == f.m < f.k - f.i - f.j - f.l + 1

\* line 34 with its body line 35, and line 36 when the range is exhausted
DashForM(f) ==
    IF DashMoreM(f)
    THEN [f EXCEPT !.total_m = RAdd(f.total_m, DashTerm(f)), !.m = f.m + 1]
    ELSE [f EXCEPT !.total_l = RAdd(f.total_l,
                                    RMul(T(I(f.r_caret), f.p, I(f.l)), f.total_m)),
                   !.l = f.l + 1, !.pc = "for_l"]

DashStep(f) ==
    CASE f.pc = "for_i" -> DashForI(f)
      [] f.pc = "for_j" -> DashForJ(f)
      [] f.pc = "for_l" -> DashForL(f)
      [] f.pc = "for_m" -> DashForM(f)

RECURSIVE DashRun(_)
DashRun(f) ==
    IF f.pc \in {"return", "raise"} THEN f ELSE DashRun(DashStep(f))

----------------------------------------------------------------------------
(* src/src/two_step_shared.py                                              *)

\* the default c_1 = 1.0999
DefaultC1 == Rat(10999, 10000)

\* lines 6-9 (and, identically, lines 50-53 of check_eq_2_6_dash)
p_dash_2_1_dash(n, p, k, r) ==
    LET rd    == r_dash(n, r)
        total == SumUpTo([i \in 0..(k - 1) |->
                     RMul(T(I(rd), p, I(i)), RPow(B(I(r - rd), p, I(k - i)), 2))], k)
    IN  RAdd(B(I(rd), p, I(k)), total)

check_eq_2_1_dash(n, p, k, r, c_1) ==
    IF n = 0 THEN Raise("ZeroDivisionError")
    ELSE LET expect == RoundTo(RMul(I(n), p_dash_2_1_dash(n, p, k, r)), 6)
             dev    == RMul(expect, RSub(c_1, One))
         IN  Return(RGe(I(r), RSub(expect, dev)) /\ RLe(I(r), RAdd(expect, dev)))

\* lines 16-19
p_dash_2_2_dash(n, p, k, r) ==
    LET rd    == r_dash(n, r)
        total == SumUpTo([i \in 0..(k - 1) |->
                     RMul(RMul(T(I(rd), p, I(i)), B(I(r - rd), p, I(k - i))),
                          B(RSub(Rat(r, 2), I(rd)), p, I(k - i)))], k)
    IN  RAdd(B(I(rd), p, I(k)), total)

check_eq_2_2_dash(n, p, k, r) ==
    IF n = 0 THEN Raise("ZeroDivisionError")
    ELSE LET expect == B(I(n), p_dash_2_2_dash(n, p, k, r), Rat(r, 10))
         IN  Return(RoundIs(expect, 6, 0))

check_eq_2_3_dash(n, p, k, r) == DashRun(DashEnter(n, p, k, r)).ret

check_eq_2_4_dash(n, p, k, r) == check_eq_2_4(n, p, k, r)

check_eq_2_5_dash(n, p, k, r) == check_eq_2_5(n, p, k, r)

p_dash_2_6_dash(n, p, k, r) ==
    LET rd    == r_dash(n, r)
        total == SumUpTo([i \in 0..(k - 1) |->
                     RMul(T(I(rd), p, I(i)), RPow(B(I(r - rd), p, I(k - i)), 2))], k)
    IN  RAdd(B(I(rd), p, I(k)), total)

check_eq_2_6_dash(n, p, k, r) ==
    IF n = 0 THEN Raise("ZeroDivisionError")
    ELSE LET p_dash  == p_dash_2_6_dash(n, p, k, r)
             p_ddash == RMul(p_dash, B(I(n), p_dash, I(k)))
             expect  == B(I(r), p_ddash, Rat(r, 2))
         IN  Return(RoundIs(expect, 6, 0))

----------------------------------------------------------------------------
(* src/src/one_step_shared.py                                              *)

expect_2_1_ddash(n, p, k_m, r) ==
    LET p_dash == B(I(2 * r - r_dash(n, r)), p, I(k_m))
    IN  RoundTo(RMul(I(n), p_dash), 2)

check_eq_2_1_ddash(n, p, k_m, r) ==
    IF n = 0 THEN Raise("ZeroDivisionError")
    ELSE LET expect == expect_2_1_ddash(n, p, k_m, r)
         IN  IF n < Crossover
             THEN Return(WithinStdev(r, expect))
             ELSE Return(compare_first_x_digits(expect, r, 2))

check_eq_2_2_ddash(n, p, k_m, r) ==
    LET p_dash == B(Rat(3 * r, 2), p, I(k_m))
        expect == B(I(n), p_dash, Rat(r, 10))
    IN  Return(RoundIs(expect, 6, 0))

check_eq_2_3_ddash(n, p, k_m, r, complete_share) ==
    IF complete_share /\ n = 0 THEN Raise("ZeroDivisionError")
    ELSE LET p_dash == IF ~complete_share
                       THEN eq_2_3_ddash_p_dash_disjoint(n, p, k_m, r)
                       ELSE eq_2_3_ddash_p_dash_shared(n, p, k_m, r)
             expect == B(I(n), p_dash, Rat(2 * r, 3))
         IN  Return(RoundIs(expect, 6, 1))

check_eq_2_4_ddash(n, p, k_a, r) ==
    LET p_dash == RMul(p, B(I(r), p, I(k_a)))
        Y      == B(I(n), p_dash, I(k_a))
    IN  Return(RoundIs(Y, 6, 1))

check_eq_2_5_ddash(n, p, k_a, r) ==
    LET p_dash  == RMul(p, B(Rat(r, 2), p, I(k_a)))
        p_ddash == B(I(n), p_dash, I(k_a))
        expect  == B(I(r), p_ddash, Rat(r, 2))
    IN  Return(RoundIs(expect, 6, 0))

check_eq_2_6_ddash(n, p, k_a, r) ==
    IF n = 0 THEN Raise("ZeroDivisionError")
    ELSE LET rd      == r_dash(n, r)
             total   == SumUpTo([i \in 0..(k_a - 1) |->
                            RMul(T(I(rd), p, I(i)),
                                 RPow(B(I(r - rd), p, I(k_a - i)), 2))], k_a)
             p_dash  == RMul(p, RAdd(B(I(rd), p, I(k_a)), total))
             p_ddash == B(I(n), p_dash, I(k_a))
             expect  == B(I(r), p_ddash, Rat(r, 2))
         IN  Return(RoundIs(expect, 6, 0))
----------------------------------------------------------------------------
(* Calls of single evaluators on enumerated arguments.                     *)

MaxN == 2

MaxK == 2

MaxR == 1

DisjointEvaluators ==
    {"check_eq_2_1", "check_eq_2_2", "check_eq_2_3",
     "check_eq_2_4", "check_eq_2_5", "check_eq_2_6"}

DashEvaluators ==
    {"check_eq_2_1_dash", "check_eq_2_2_dash", "check_eq_2_3_dash",
     "check_eq_2_4_dash", "check_eq_2_5_dash", "check_eq_2_6_dash"}

DdashEvaluators ==
    {"check_eq_2_1_ddash", "check_eq_2_2_ddash", "check_eq_2_3_ddash",
     "check_eq_2_4_ddash", "check_eq_2_5_ddash", "check_eq_2_6_ddash"}

Evaluators == DisjointEvaluators \cup DashEvaluators \cup DdashEvaluators

\* the evaluators with the scale-dependent range check
ScaleEvaluators == {"check_eq_2_1", "check_eq_2_1_ddash"}

\* p < 0, p = 0, a valid p, p = 1, p > 1
PSet == {Rat(-1, 2), Zero, Rat(1, 2), One, Rat(3, 2)}

\* n around the crossover
ScaleN == {Crossover - 1, Crossover, Crossover + 1}

\* (k, r) at scale: the small grid, and a two-digit r whose B(r, p, 0) is 1
ScaleKR == ((0..MaxK) \X (0..MaxR)) \cup {<<0, 10>>}

Backends == {"nan", "floor"}

EvArgs(fn, n, p, k, r, cs) ==
    [fn |-> fn, n |-> n, p |-> p, k |-> k, r |-> r, t |-> 1, c_1 |-> DefaultC1,
     complete_share |-> cs, pc |-> "call", outcome |-> NotCalled]

NoEv == EvArgs("none", 0, Zero, 0, 0, TRUE)

NoCmp == [a |-> Zero, b |-> 0, x |-> 0, pc |-> "none", result |-> FALSE]

NoDp == [n |-> 0, r |-> 0, pc |-> "none",
         r_dash |-> 0, r_ddash |-> 0, r_caret |-> 0, r_sharp |-> 0]

NoRun == [runner |-> "none", complete_share |-> TRUE, pc |-> "none", i |-> 0,
          k |-> 0, k_adj |-> Zero, k_a |-> 0, k_m |-> 0,
          checks |-> <<>>, calls |-> <<>>, out |-> <<>>, ret |-> "none"]

InitEval ==
    /\ nonintegral \in Backends
    /\ \/ \E fn \in Evaluators, n \in 0..MaxN, p \in PSet, k \in 0..MaxK,
            r \in (-1)..MaxR :
              \E cs \in (IF fn = "check_eq_2_3_ddash" THEN BOOLEAN ELSE {TRUE}) :
                  ev = EvArgs(fn, n, p, k, r, cs)
       \/ \E fn \in ScaleEvaluators, n \in ScaleN, kr \in ScaleKR :
              ev = EvArgs(fn, n, Rat(1, 2), kr[1], kr[2], TRUE)
    /\ cmp = NoCmp
    /\ dp = NoDp
    /\ frame = NoFrame
    /\ visited = <<>>
    /\ run = NoRun

CallDisjoint ==
    /\ ev.pc = "call"
    /\ ev.fn \in DisjointEvaluators
    /\ LET e == ev
           o == CASE e.fn = "check_eq_2_1" -> check_eq_2_1(e.n, e.p, e.k, e.r)
                  [] e.fn = "check_eq_2_2" -> check_eq_2_2(e.n, e.p, e.k, e.r)
                  [] e.fn = "check_eq_2_3" -> check_eq_2_3(e.n, e.p, e.k, e.r)
                  [] e.fn = "check_eq_2_4" -> check_eq_2_4(e.n, e.p, e.k, e.r)
                  [] e.fn = "check_eq_2_5" -> check_eq_2_5(e.n, e.p, e.k, e.r)
                  [] e.fn = "check_eq_2_6" -> check_eq_2_6(e.n, e.p, e.k, e.r, e.t)
       IN  ev' = [ev EXCEPT !.outcome = o, !.pc = "done"]
    /\ UNCHANGED <<nonintegral, cmp, dp, frame, visited, run>>

CallDash ==
    /\ ev.pc = "call"
    /\ ev.fn \in DashEvaluators
    /\ LET e == ev
           o == CASE e.fn = "check_eq_2_1_dash" ->
                         check_eq_2_1_dash(e.n, e.p, e.k, e.r, e.c_1)
                  [] e.fn = "check_eq_2_2_dash" -> check_eq_2_2_dash(e.n, e.p, e.k, e.r)
                  [] e.fn = "check_eq_2_3_dash" -> check_eq_2_3_dash(e.n, e.p, e.k, e.r)
                  [] e.fn = "check_eq_2_4_dash" -> check_eq_2_4_dash(e.n, e.p, e.k, e.r)
                  [] e.fn = "check_eq_2_5_dash" -> check_eq_2_5_dash(e.n, e.p, e.k, e.r)
                  [] e.fn = "check_eq_2_6_dash" -> check_eq_2_6_dash(e.n, e.p, e.k, e.r)
       IN  ev' = [ev EXCEPT !.outcome = o, !.pc = "done"]
    /\ UNCHANGED <<nonintegral, cmp, dp, frame, visited, run>>

CallDdash ==
    /\ ev.pc = "call"
    /\ ev.fn \in DdashEvaluators
    /\ LET e == ev
           o == CASE e.fn = "check_eq_2_1_ddash" ->
                         check_eq_2_1_ddash(e.n, e.p, e.k, e.r)
                  [] e.fn = "check_eq_2_2_ddash" ->
                         check_eq_2_2_ddash(e.n, e.p, e.k, e.r)
                  [] e.fn = "check_eq_2_3_ddash" ->
                         check_eq_2_3_ddash(e.n, e.p, e.k, e.r, e.complete_share)
                  [] e.fn = "check_eq_2_4_ddash" ->
                         check_eq_2_4_ddash(e.n, e.p, e.k, e.r)
                  [] e.fn = "check_eq_2_5_ddash" ->
                         check_eq_2_5_ddash(e.n, e.p, e.k, e.r)
                  [] e.fn = "check_eq_2_6_ddash" ->
                         check_eq_2_6_ddash(e.n, e.p, e.k, e.r)
       IN  ev' = [ev EXCEPT !.outcome = o, !.pc = "done"]
    /\ UNCHANGED <<nonintegral, cmp, dp, frame, visited, run>>

NextEval == CallDisjoint \/ CallDash \/ CallDdash

SpecEval == InitEval /\ [][NextEval]_vars
----------------------------------------------------------------------------
(* Claims about single evaluator calls, checked under SpecEval.            *)

\* the arguments C3 lists: p = 0, p = 1, p < 0, p > 1, n = 0 or r < 0
OutOfDomainArgs ==
    \/ ev.p.num <= 0
    \/ ev.p.num >= ev.p.den
    \/ ev.n = 0
    \/ ev.r < 0

\* the evaluators whose first statement divides by n
DividesByN ==
    \/ ev.fn \in {"check_eq_2_1_dash", "check_eq_2_2_dash", "check_eq_2_3_dash",
                  "check_eq_2_6_dash", "check_eq_2_1_ddash", "check_eq_2_6_ddash"}
    \/ ev.fn = "check_eq_2_3_ddash" /\ ev.complete_share

ScaleExpect ==
    IF ev.fn = "check_eq_2_1"
    THEN expect_2_1(ev.n, ev.p, ev.k, ev.r)
    ELSE expect_2_1_ddash(ev.n, ev.p, ev.k, ev.r)

\* (r - expect)^2 <= 4 * expect
SquaredBand(r, expect) ==
    /\ ~IsNaN(expect)
    /\ Sq400Le(Abs(100 * r - expect.num * (100 \div expect.den)),
               expect.num * (100 \div expect.den))

\* C4: check_eq_2_1 and check_eq_2_1_ddash select the comparison by n alone.
\* For n < 10^6 the result is true exactly when (r - expect)^2 <= 4*expect;
\* for n >= 10^6 it is the result of the digit-prefix comparator.
C4_ComparisonSelectedByN ==
    (ev.pc = "done" /\ ev.fn \in ScaleEvaluators /\ ev.outcome.kind = "return")
        => /\ ev.n < Crossover
                => (ev.outcome.value <=> SquaredBand(ev.r, ScaleExpect))
           /\ ev.n >= Crossover
                => (ev.outcome.value
                       <=> compare_first_x_digits(ScaleExpect, ev.r, 2))

\* C4 witness: at n = 10^6 exactly the call returned the comparator's True
\* although r lies outside the band.
C4_Witness ==
    /\ ev.pc = "done"
    /\ ev.fn \in ScaleEvaluators
    /\ ev.n = Crossover
    /\ ev.outcome = Return(TRUE)
    /\ ~SquaredBand(ev.r, ScaleExpect)

\* valid arguments: n >= 1, 0 <= r <= n, 0 <= k <= n, 0 < p < 1
ValidArgs ==
    /\ ev.n >= 1
    /\ 0 <= ev.r /\ ev.r <= ev.n
    /\ 0 <= ev.k /\ ev.k <= ev.n
    /\ 0 < ev.p.num /\ ev.p.num < ev.p.den

\* the p' that the two-step shared evaluator ev calls computes
DashPDash ==
    CASE ev.fn = "check_eq_2_1_dash" -> p_dash_2_1_dash(ev.n, ev.p, ev.k, ev.r)
      [] ev.fn = "check_eq_2_2_dash" -> p_dash_2_2_dash(ev.n, ev.p, ev.k, ev.r)
      [] ev.fn = "check_eq_2_6_dash" -> p_dash_2_6_dash(ev.n, ev.p, ev.k, ev.r)

\* C7: for valid arguments check_eq_2_1_dash, check_eq_2_2_dash and
\* check_eq_2_6_dash never pass a negative count to B or T: the counts they
\* pass, r', r - r' (inside the loop over i < k) and, in check_eq_2_2_dash,
\* (r/2) - r', are >= 0, so (with a backend that accepts fractional counts)
\* no primitive answers nan.
C7_NoNegativeCount ==
    (/\ ev.pc = "done"
     /\ ev.fn \in {"check_eq_2_1_dash", "check_eq_2_2_dash", "check_eq_2_6_dash"}
     /\ ValidArgs)
        => /\ r_dash(ev.n, ev.r) >= 0
           /\ ev.k >= 1 => ev.r - r_dash(ev.n, ev.r) >= 0
           /\ (ev.k >= 1 /\ ev.fn = "check_eq_2_2_dash")
                 => ev.r - 2 * r_dash(ev.n, ev.r) >= 0
           /\ nonintegral = "floor" => ~IsNaN(DashPDash)
----------------------------------------------------------------------------
(* Calls of compare_first_x_digits on enumerated (expect, r).              *)

\* expect ranges over the quarters 0.0, 0.25, ..., MaxQuarter / 4
MaxQuarter == 520

MaxCount == 130

InitCmp ==
    /\ nonintegral = "nan"
    /\ \E q \in 0..MaxQuarter, b \in 0..MaxCount :
          cmp = [a |-> Rat(25 * q, 100), b |-> b, x |-> 2,
                 pc |-> "call", result |-> FALSE]
    /\ ev = NoEv
    /\ dp = NoDp
    /\ frame = NoFrame
    /\ visited = <<>>
    /\ run = NoRun

CallCompare ==
    /\ cmp.pc = "call"
    /\ cmp' = [cmp EXCEPT !.result = compare_first_x_digits(cmp.a, cmp.b, cmp.x),
                          !.pc = "done"]
    /\ UNCHANGED <<nonintegral, ev, dp, frame, visited, run>>

NextCmp == CallCompare

SpecCmp == InitCmp /\ [][NextCmp]_vars

\* the one or two leading decimal digits of a non-negative integer
RECURSIVE TopTwo(_)
TopTwo(i) == IF i < 100 THEN i ELSE TopTwo(i \div 10)

\* C5 as stated: the comparator accepts exactly when the two leading decimal
\* digits of expect and of r match, also for a single-digit r and for an
\* expect below 10 (1.25 and 12 both lead with the digits 1, 2).
C5_LeadingDigitsMatch ==
    cmp.pc = "done"
        => (cmp.result <=> Prefix(DropPoint(StrFloat(cmp.a)), 2)
                               = Prefix(StrInt(cmp.b), 2))

\* C5 amended: the comparator accepts exactly when the first two characters
\* of str(expect) and str(r) are equal, the decimal point being a character:
\* for 0 <= expect < 10^16 and r >= 0 that is when expect >= 10, r >= 10 and
\* the two leading digits of expect's integer part are those of r.  An expect
\* below 10 or a single-digit r is always rejected.
C5_FirstTwoCharacters ==
    cmp.pc = "done"
        => (cmp.result <=> /\ Floor(cmp.a) >= 10
                           /\ cmp.b >= 10
                           /\ TopTwo(Floor(cmp.a)) = TopTwo(cmp.b))

\* C5 witness: a three-digit expect has been accepted against a two-digit r.
C5_Witness ==
    /\ cmp.pc = "done"
    /\ cmp.result
    /\ Floor(cmp.a) >= 100
    /\ cmp.b < 100

----------------------------------------------------------------------------
(* The derived counts on enumerated (n, r), 0 <= r <= n.                   *)

MaxDerivedN == 20

InitDerived ==
    /\ nonintegral = "nan"
    /\ \E n \in 1..MaxDerivedN :
          \E r \in 0..n : dp = [NoDp EXCEPT !.n = n, !.r = r, !.pc = "call"]
    /\ ev = NoEv
    /\ cmp = NoCmp
    /\ frame = NoFrame
    /\ visited = <<>>
    /\ run = NoRun

\* one_step_shared.py lines 24-27 (two_step_shared.py lines 24-26, and the
\* r - 2*r_dash + r_ddash of its line 35)
Derive ==
    /\ dp.pc = "call"
    /\ dp' = [dp EXCEPT !.r_dash = r_dash(dp.n, dp.r),
                        !.r_ddash = r_ddash(dp.n, dp.r),
                        !.r_caret = r_caret(dp.n, dp.r),
                        !.r_sharp = r_sharp(dp.n, dp.r),
                        !.pc = "done"]
    /\ UNCHANGED <<nonintegral, ev, cmp, frame, visited, run>>

NextDerived == Derive

SpecDerived == InitDerived /\ [][NextDerived]_vars

\* round-half-away-from-zero of a / b, a >= 0, b > 0
RoundHalfAway(a, b) == (2 * a + b) \div (2 * b)

\* C10: with ties-to-even rounding, for every n >= 1 and 0 <= r <= n the
\* derived counts satisfy r^ >= 0, r# >= 0 and r# + 2*r^ + r'' = r; with
\* round-half-away-from-zero n = 8, r = 6 gives a negative r#.
C10_DerivedCountsNonNegative ==
    dp.pc = "done"
        => /\ dp.r_caret >= 0
           /\ dp.r_sharp >= 0
           /\ dp.r_sharp + 2 * dp.r_caret + dp.r_ddash = dp.r
           /\ 6 - 2 * RoundHalfAway(6 * 6, 8) + RoundHalfAway(6 * 6 * 6, 8 * 8) < 0
----------------------------------------------------------------------------
(* eq_2_3_ddash_p_dash_shared run loop header by loop header.              *)

MaxNestN == 8

MaxNestR == 3

MaxKm == 3

NestP == {Rat(1, 4), Rat(1, 2)}

\* what the term about to be added at line 38 contributes to p_dash: the
\* summand times the point masses that lines 39-42 multiply it with
SharedWeight(f) ==
    RMul(RMul(RMul(T(I(f.r_sharp), f.p, I(f.s)), T(I(f.r_caret), f.p, I(f.i))),
              RMul(T(I(f.r_caret), f.p, I(f.j)), T(I(f.r_ddash), f.p, I(f.m)))),
         SharedTerm(f))

InitShared ==
    /\ nonintegral = "nan"
    /\ \E n \in 1..MaxNestN, p \in NestP, k_m \in 0..MaxKm :
          \E r \in 0..Min(n, MaxNestR) : frame = SharedEnter(n, p, k_m, r)
    /\ visited = <<>>
    /\ ev = NoEv
    /\ cmp = NoCmp
    /\ dp = NoDp
    /\ run = NoRun

SharedLoopS ==
    /\ frame.fn = "eq_2_3_ddash_p_dash_shared" /\ frame.pc = "for_s"
    /\ frame' = SharedForS(frame)
    /\ UNCHANGED <<nonintegral, ev, cmp, dp, visited, run>>

SharedLoopI ==
    /\ frame.fn = "eq_2_3_ddash_p_dash_shared" /\ frame.pc = "for_i"
    /\ frame' = SharedForI(frame)
    /\ UNCHANGED <<nonintegral, ev, cmp, dp, visited, run>>

SharedLoopJ ==
    /\ frame.fn = "eq_2_3_ddash_p_dash_shared" /\ frame.pc = "for_j"
    /\ frame' = SharedForJ(frame)
    /\ UNCHANGED <<nonintegral, ev, cmp, dp, visited, run>>

SharedLoopM ==
    /\ frame.fn = "eq_2_3_ddash_p_dash_shared" /\ frame.pc = "for_m"
    /\ frame' = SharedForM(frame)
    /\ UNCHANGED <<nonintegral, ev, cmp, dp, visited, run>>

SharedLoopL ==
    /\ frame.fn = "eq_2_3_ddash_p_dash_shared" /\ frame.pc = "for_l"
    /\ frame' = SharedForL(frame)
    /\ visited' = IF SharedMoreL(frame)
                  THEN Append(visited,
                              [idx |-> <<frame.s, frame.i, frame.j, frame.m, frame.l>>,
                               thr |-> <<SharedThreshold(frame)>>,
                               w   |-> SharedWeight(frame)])
                  ELSE visited
    /\ UNCHANGED <<nonintegral, ev, cmp, dp, run>>

NextShared ==
    SharedLoopS \/ SharedLoopI \/ SharedLoopJ \/ SharedLoopM \/ SharedLoopL

SpecShared == InitShared /\ [][NextShared]_vars

RECURSIVE SeqSum(_)
SeqSum(t) == IF t = <<>> THEN 0 ELSE Head(t) + SeqSum(Tail(t))

\* the tuples of d non-negative integers with sum <= budget, d = 4 or 5
Simplex4(budget) ==
    {t \in (0..budget) \X (0..budget) \X (0..budget) \X (0..budget) :
        SeqSum(t) <= budget}

Simplex5(budget) ==
    {t \in (0..budget) \X (0..budget) \X (0..budget) \X (0..budget) \X (0..budget) :
        SeqSum(t) <= budget}

NoDuplicates ==
    \A a, b \in 1..Len(visited) : a # b => visited[a].idx # visited[b].idx

VisitedTuples == {visited[a].idx : a \in 1..Len(visited)}

\* how far the nest has come: the indices of the loops that are running,
\* most significant first, then the depth of the loop header about to be
\* tested.  At most (k_m + 2)^5 * 6.
SharedMeasure(f) ==
    LET depth == CASE f.pc = "for_s" -> 0 [] f.pc = "for_i" -> 1
                   [] f.pc = "for_j" -> 2 [] f.pc = "for_m" -> 3
                   [] f.pc = "for_l" -> 4 [] OTHER -> 5
        b     == f.k + 2
        i     == IF depth \in 1..4 THEN f.i ELSE 0
        j     == IF depth \in 2..4 THEN f.j ELSE 0
        m     == IF depth \in 3..4 THEN f.m ELSE 0
        l     == IF depth = 4 THEN f.l ELSE 0
    IN  ((((f.s * b + i) * b + j) * b + m) * b + l) * 6 + depth

SharedInvariant ==
    /\ NoDuplicates
    /\ frame.pc \in {"for_s", "for_i", "for_j", "for_m", "for_l", "return"}
    /\ frame.s <= Max(frame.k, 0) /\ frame.i <= frame.k /\ frame.j <= frame.k
    /\ frame.m <= frame.k /\ frame.l <= frame.k
    /\ \A a \in 1..Len(visited) :
          /\ \A c \in 1..5 : visited[a].idx[c] >= 0
          /\ SeqSum(visited[a].idx) <= frame.k - 1
          /\ visited[a].thr[1] >= 1
    /\ frame.pc = "return"
          => /\ VisitedTuples = (IF frame.k = 0 THEN {} ELSE Simplex5(frame.k - 1))
             /\ frame.k = 0 => (visited = <<>> /\ frame.p_dash = Zero)

\* C8: for every k_m >= 0 the loop nest of eq_2_3_ddash_p_dash_shared
\* terminates and evaluates its innermost term exactly once for each tuple
\* (s,i,j,m,l) of non-negative integers with s+i+j+m+l <= k_m - 1 and for no
\* other tuple; the threshold passed to B is >= 1 in every term, and for
\* k_m = 0 no term is evaluated and the result is 0.0.
\* Termination: every step keeps the indices within 0..k_m and raises the
\* bounded SharedMeasure, and every pc but "return" has a step.
C8_SharedNestTuples ==
    /\ SharedInvariant
    /\ [][SharedInvariant' /\ SharedMeasure(frame') > SharedMeasure(frame)]_vars

\* C8 witness: a run with k_m >= 3 has returned after evaluating a term with
\* every index positive but l, and one with l positive
C8_Witness ==
    /\ frame.pc = "return"
    /\ frame.k >= 3
    /\ \E a \in 1..Len(visited) : visited[a].idx = <<1, 1, 0, 0, 0>>
    /\ \E a \in 1..Len(visited) : visited[a].idx = <<0, 0, 0, 0, 2>>

\* r' = 0 and r'' = 0, so r^ = 0 and r# = r
Degenerate == frame.r_dash = 0 /\ frame.r_ddash = 0

\* C6: when r' = r'' = 0, eq_2_3_ddash_p_dash_shared(n,p,k_m,r) equals
\* eq_2_3_ddash_p_dash_disjoint(n,p,k_m,r) for every k_m >= 0: the only
\* non-zero terms of the five-level sum have i = j = m = l = 0, and for each
\* s that term is T(r,p,s) * B(r,p,k_m-s) * (1 - B(r,p,k_m-s)).
C6_DegenerateSharedIsDisjoint ==
    Degenerate
        => /\ \A a \in 1..Len(visited) :
                LET e == visited[a]
                IN  IF SubSeq(e.idx, 2, 5) = <<0, 0, 0, 0>>
                    THEN e.w = DisjointTerm(frame.p, frame.k, frame.r, e.idx[1])
                    ELSE e.w = Zero
           /\ frame.pc = "return"
                => frame.p_dash = eq_2_3_ddash_p_dash_disjoint(frame.n, frame.p,
                                                               frame.k, frame.r)

\* C6 witness: a degenerate run with k_m >= 2 and r >= 1 has returned a
\* non-zero sum
C6_Witness ==
    /\ Degenerate
    /\ frame.pc = "return"
    /\ frame.k >= 2
    /\ frame.r >= 1
    /\ frame.p_dash # Zero

----------------------------------------------------------------------------
(* SpecDash: the four-level loop nest of check_eq_2_3_dash, one step per   *)
(* loop header.                                                            *)

MaxDashN == 4

MaxDashR == 3

MaxDashK == 3

DashP == {Zero, Rat(1, 2), One}

InitDash ==
    /\ nonintegral \in Backends
    /\ \E n \in 1..MaxDashN, p \in DashP, k \in 0..MaxDashK :
          \E r \in 0..Min(n, MaxDashR) : frame = DashEnter(n, p, k, r)
    /\ visited = <<>>
    /\ ev = NoEv
    /\ cmp = NoCmp
    /\ dp = NoDp
    /\ run = NoRun

DashLoopI ==
    /\ frame.fn = "check_eq_2_3_dash" /\ frame.pc = "for_i"
    /\ frame' = DashForI(frame)
    /\ UNCHANGED <<nonintegral, ev, cmp, dp, visited, run>>

DashLoopJ ==
    /\ frame.fn = "check_eq_2_3_dash" /\ frame.pc = "for_j"
    /\ frame' = DashForJ(frame)
    /\ UNCHANGED <<nonintegral, ev, cmp, dp, visited, run>>

DashLoopL ==
    /\ frame.fn = "check_eq_2_3_dash" /\ frame.pc = "for_l"
    /\ frame' = DashForL(frame)
    /\ UNCHANGED <<nonintegral, ev, cmp, dp, visited, run>>

DashLoopM ==
    /\ frame.fn = "check_eq_2_3_dash" /\ frame.pc = "for_m"
    /\ frame' = DashForM(frame)
    /\ visited' = IF DashMoreM(frame)
                  THEN Append(visited,
                              [idx |-> <<frame.i, frame.j, frame.l, frame.m>>,
                               thr |-> DashThresholds(frame)])
                  ELSE visited
    /\ UNCHANGED <<nonintegral, ev, cmp, dp, run>>

NextDash == DashLoopI \/ DashLoopJ \/ DashLoopL \/ DashLoopM

SpecDash == InitDash /\ [][NextDash]_vars

\* how far the nest has come: the indices of the loops that are running,
\* most significant first, then the depth of the loop header about to be
\* tested.  At most (k + 3)^4 * 5.
DashMeasure(f) ==
    LET depth == CASE f.pc = "for_i" -> 0 [] f.pc = "for_j" -> 1
                   [] f.pc = "for_l" -> 2 [] f.pc = "for_m" -> 3
                   [] OTHER -> 4
        b     == f.k + 3
        j     == IF depth \in 1..3 THEN f.j ELSE 0
        l     == IF depth \in 2..3 THEN f.l ELSE 0
        m     == IF depth = 3 THEN f.m ELSE 0
    IN  (((f.i * b + j) * b + l) * b + m) * 5 + depth

DashInvariant ==
    /\ NoDuplicates
    /\ frame.pc \in {"for_i", "for_j", "for_l", "for_m", "return"}
    /\ frame.i <= frame.k + 1 /\ frame.j <= frame.k + 1
    /\ frame.l <= frame.k + 1 /\ frame.m <= frame.k + 1
    /\ \A a \in 1..Len(visited) :
          /\ \A c \in 1..4 : visited[a].idx[c] >= 0
          /\ SeqSum(visited[a].idx) <= frame.k
          /\ \A c \in 1..3 : visited[a].thr[c] >= 0
    /\ frame.pc = "return"
          => /\ VisitedTuples = Simplex4(frame.k)
             /\ frame.ret.kind = "return"

\* C9: for every k >= 0 the loop nest of check_eq_2_3_dash terminates and
\* evaluates its innermost term exactly once for each tuple (i,j,l,m) of
\* non-negative integers with i+j+l+m <= k and for no other tuple; in every
\* term the thresholds k-i-j-m, k-j-l-m and k-i-l-m passed to B are >= 0.
\* Termination: every step keeps the indices within 0..k+1 and raises the
\* bounded DashMeasure, and every pc but "return" has a step.
C9_DashNestTuples ==
    /\ DashInvariant
    /\ [][DashInvariant' /\ DashMeasure(frame') > DashMeasure(frame)]_vars

\* C9 witness: a run with k >= 2 has returned after evaluating the terms at
\* the inclusive boundary i+j+l+m = k, one of them with a threshold of 0
C9_Witness ==
    /\ frame.fn = "check_eq_2_3_dash"
    /\ frame.pc = "return"
    /\ frame.k >= 2
    /\ \E a \in 1..Len(visited) :
          visited[a].idx = <<1, 0, 1, 0>> /\ visited[a].thr[3] = 0
    /\ \E a \in 1..Len(visited) :
          visited[a].idx = <<0, 0, 0, 2>> /\ visited[a].thr = <<0, 0, 0>>

----------------------------------------------------------------------------
(* SpecRun: the three runners, one step per statement.  What an evaluator  *)
(* returns is the input of the step that calls it.                         *)

MaxRunK == 1

Runners ==
    {"run_twostep_disjoint_checks", "run_twostep_shared_checks",
     "run_onestep_shared_checks"}

\* the evaluators in the order of the runner's calls
RunnerEvaluators(runner) ==
    CASE runner = "run_twostep_disjoint_checks" ->
            <<"check_eq_2_1", "check_eq_2_2", "check_eq_2_3",
              "check_eq_2_4", "check_eq_2_5", "check_eq_2_6">>
      [] runner = "run_twostep_shared_checks" ->
            <<"check_eq_2_1_dash", "check_eq_2_2_dash", "check_eq_2_3_dash",
              "check_eq_2_4_dash", "check_eq_2_5_dash", "check_eq_2_6_dash">>
      [] runner = "run_onestep_shared_checks" ->
            <<"check_eq_2_1_ddash", "check_eq_2_2_ddash", "check_eq_2_3_ddash",
              "check_eq_2_4_ddash", "check_eq_2_5_ddash", "check_eq_2_6_ddash">>

\* the first argument of the print after the i-th call
RunnerLabels(runner) ==
    CASE runner = "run_twostep_disjoint_checks" ->
            <<"Equation 2.1:", "Equation 2.2:", "Equation 2.3:",
              "Equation 2.4:", "Equation 2.5:", "Equation 2.6:">>
      [] runner = "run_twostep_shared_checks" ->
            <<"Equation 2.1':", "Equation 2.2':", "Equation 2.3':",
              "Equation 2.4':", "Equation 2.5':", "Equation 2.6':">>
      [] runner = "run_onestep_shared_checks" ->
            <<"Equation 2.1'':", "Equation 2.2'':", "Equation 2.3'':",
              "Equation 2.4'':", "Equation 2.5'':", "Equation 2.6'':">>

RunnerTitle(runner, complete_share) ==
    CASE runner = "run_twostep_disjoint_checks" ->
            "For a Disjoint Representation with Two-Step Mechanisms,"
      [] runner = "run_twostep_shared_checks" ->
            "For a Shared Representation with Two-Step Mechanisms,"
      [] runner = "run_onestep_shared_checks" ->
            IF ~complete_share
            THEN "For a Partially-Shared Representation with One-Step Mechanisms,"
            ELSE "For a Shared Representation with One-Step Mechanisms,"

\* the k the i-th evaluator is called with
RunnerK(rn, i) ==
    IF rn.runner = "run_onestep_shared_checks"
    THEN (IF i <= 3 THEN rn.k_m ELSE rn.k_a)
    ELSE rn.k

Line(kind, eq, text, value) ==
    [kind |-> kind, eq |-> eq, text |-> text, value |-> value]

\* a verdict that looks at check_6 only
Verdict_LastOnly(checks) == IF checks[6] THEN "Passed" ELSE "Failed"

\* the last three lines of every runner
Verdict(checks) ==
    IF checks[1] /\ checks[2] /\ checks[3] /\ checks[4] /\ checks[5] /\ checks[6]
    THEN "Passed"
    ELSE "Failed"

InitRun ==
    /\ nonintegral = "nan"
    /\ \E runner \in Runners, k \in 0..MaxRunK, k_adj \in {Rat(1, 2), One} :
          \E cs \in (IF runner = "run_onestep_shared_checks"
                     THEN BOOLEAN ELSE {TRUE}) :
             run = [NoRun EXCEPT !.runner = runner, !.complete_share = cs,
                                 !.k = k,
                                 !.k_adj = IF runner = "run_onestep_shared_checks"
                                           THEN k_adj ELSE Zero,
                                 !.pc = "header"]
    /\ ev = NoEv
    /\ cmp = NoCmp
    /\ dp = NoDp
    /\ frame = NoFrame
    /\ visited = <<>>

\* the statements before the first call: k_a and k_m (one-step runner), the
\* title and the parameter header
RunHeader ==
    /\ run.pc = "header"
    /\ run' = [run EXCEPT
                 !.k_a = IF run.runner = "run_onestep_shared_checks"
                         THEN run.k ELSE 0,
                 !.k_m = IF run.runner = "run_onestep_shared_checks"
                         THEN RoundHalfEven(run.k_adj.num * run.k, run.k_adj.den)
                         ELSE 0,
                 !.out = <<Line("title", 0,
                                RunnerTitle(run.runner, run.complete_share), FALSE),
                           Line("header", 0, "", FALSE)>>,
                 !.i = 1, !.pc = "call"]
    /\ UNCHANGED <<nonintegral, ev, cmp, dp, frame, visited>>

\* check_i = <evaluator i>(...)
RunCall ==
    /\ run.pc = "call"
    /\ \E b \in BOOLEAN :
          run' = [run EXCEPT
                    !.checks = Append(run.checks, b),
                    !.calls = Append(run.calls,
                                     [fn |-> RunnerEvaluators(run.runner)[run.i],
                                      k  |-> RunnerK(run, run.i)]),
                    !.pc = "print"]
    /\ UNCHANGED <<nonintegral, ev, cmp, dp, frame, visited>>

\* print(<label i>, check_i); in the one-step runner the print of check_3 is
\* the if/else of lines 89-92
RunPrint ==
    /\ run.pc = "print"
    /\ LET onestep == run.runner = "run_onestep_shared_checks"
           text    == IF onestep /\ run.i = 3 /\ ~run.complete_share
                      THEN "Equation 2.3'' (Disjoint):"
                      ELSE RunnerLabels(run.runner)[run.i]
       IN  run' = [run EXCEPT
                     !.out = Append(run.out,
                                    Line("result", run.i, text, run.checks[run.i])),
                     !.i = IF (onestep /\ run.i = 3) \/ run.i = 6
                           THEN run.i ELSE run.i + 1,
                     !.pc = CASE onestep /\ run.i = 2 -> "notice"
                              [] onestep /\ run.i = 3 -> "print_again"
                              [] run.i = 6 -> "return"
                              [] OTHER -> "call"]
    /\ UNCHANGED <<nonintegral, ev, cmp, dp, frame, visited>>

\* one_step_shared.py line 87
RunNotice ==
    /\ run.pc = "notice"
    /\ run' = [run EXCEPT
                 !.out = Append(run.out,
                                Line("notice", 3,
                                     "* Calculations of Equation 2.3'' (Shared) take a while... *",
                                     FALSE)),
                 !.pc = "call"]
    /\ UNCHANGED <<nonintegral, ev, cmp, dp, frame, visited>>

\* one_step_shared.py line 93
RunPrintAgain ==
    /\ run.pc = "print_again"
    /\ run' = [run EXCEPT
                 !.out = Append(run.out,
                                Line("result", 3, "Equation 2.3'':", run.checks[3])),
                 !.i = 4, !.pc = "call"]
    /\ UNCHANGED <<nonintegral, ev, cmp, dp, frame, visited>>

RunReturn ==
    /\ run.pc = "return"
    /\ run' = [run EXCEPT !.ret = Verdict(run.checks), !.pc = "done"]
    /\ UNCHANGED <<nonintegral, ev, cmp, dp, frame, visited>>

NextRun ==
    RunHeader \/ RunCall \/ RunPrint \/ RunNotice \/ RunPrintAgain \/ RunReturn

SpecRun == InitRun /\ [][NextRun]_vars

\* C1: each runner returns "Passed" if and only if all six booleans are
\* true and "Failed" in every other case, and all six evaluators are called
\* even when an earlier one returned false.
C1_PassedIffAllSix ==
    /\ run.ret # "none" <=> run.pc = "done"
    /\ run.pc = "done"
          => /\ Len(run.checks) = 6
             /\ [c \in 1..6 |-> run.calls[c].fn] = RunnerEvaluators(run.runner)
             /\ run.ret \in {"Passed", "Failed"}
             /\ run.ret = "Passed" <=> \A c \in 1..6 : run.checks[c]
    /\ \A c \in 1..Len(run.checks) :
          ~run.checks[c] /\ c < 6 /\ run.pc \in {"return", "done"}
             => Len(run.calls) = 6

\* C1 witness: a runner has returned "Failed" after its first evaluator
\* returned false and the five later ones were called and returned true
C1_Witness ==
    /\ run.pc = "done"
    /\ run.ret = "Failed"
    /\ run.checks = <<FALSE, TRUE, TRUE, TRUE, TRUE, TRUE>>
    /\ Len(run.calls) = 6

\* the equations of the result lines printed so far, in order
ResultEquations ==
    LET res == SelectSeq(run.out, LAMBDA ln : ln.kind = "result")
    IN  [c \in 1..Len(res) |-> res[c].eq]

\* a notice was printed before the third evaluator was called
NoticeBeforeThird ==
    Len(run.calls) >= 3 => \E c \in 1..Len(run.out) : run.out[c].kind = "notice"

\* C2: in every run of every runner the six evaluators are invoked in the
\* order 2.1 .. 2.6, exactly one result line is emitted per equation (the
\* result lines printed so far are those of equations 1, 2, ... in that
\* order, six of them at the end), and a progress notice is emitted before
\* equation 2.3 is evaluated.
C2_OneLinePerEquation ==
    /\ ResultEquations = [c \in 1..Len(ResultEquations) |-> c]
    /\ run.pc = "done"
          => /\ [c \in 1..6 |-> run.calls[c].fn] = RunnerEvaluators(run.runner)
             /\ Len(ResultEquations) = 6
             /\ NoticeBeforeThird
====
